---- MODULE Spec2Model ----
(***************************************************************************)
(* Game-state logic of the App component (frontend_react/src/App.js):      *)
(* the six pieces of React state, the outcome-tracking effect and the      *)
(* three handlers handleClick, handleReset and handleNewGame.              *)
(*                                                                         *)
(* Encoding of JavaScript values:                                          *)
(*   null       -> Null ("null");  undefined -> Undefined ("undefined")    *)
(*   an array   -> a function from its own integer property keys to values *)
(*                 (index i of the source is key i; a key < 0 is a plain   *)
(*                 property, an absent key >= 0 is a hole)                 *)
(*   winningLine null -> NoLine (<<>>), a line -> <<a, b, c>>              *)
(***************************************************************************)
EXTENDS Integers, Sequences, FiniteSets

VARIABLES squares, xIsNext, history, isGameOver, winner, winningLine, pc,
          lastCall

\* The component's state and the position of the render cycle: pc is "idle"
\* when the next input can be handled and "effect" while the effect of the
\* last committed render is still to run.
state == <<squares, xIsNext, history, isGameOver, winner, winningLine, pc>>

\* lastCall is an observer: the name of the handler or effect that ran last.
vars == <<state, lastCall>>

Null == "null"
Undefined == "undefined"
NoLine == <<>>

\* Indices of the 9 cells the board is rendered with.
Cells == 0 .. 8

\* Array(9).fill(null)
EmptyBoard == [k \in Cells |-> Null]

\* squares[i]: an absent property reads as undefined.
Get(a, i) == IF i \in DOMAIN a THEN a[i] ELSE Undefined

\* JavaScript truthiness of a cell value: "X" and "O" are truthy, null and
\* undefined are falsy.
Truthy(v) == v \in {"X", "O"}

\* a.length: one more than the largest array index that is set.
Length(a) == LET idx == {k \in DOMAIN a : k >= 0}
             IN  IF idx = {} THEN 0
                 ELSE 1 + (CHOOSE m \in idx : \A k \in idx : k <= m)

\* squares.slice(): copies the array indices only (a property with a
\* negative key is not copied).
Slice(a) == [k \in {j \in DOMAIN a : j >= 0} |-> a[k]]

\* nextSquares[i] = v
SetAt(a, i, v) == [k \in (DOMAIN a) \cup {i} |-> IF k = i THEN v ELSE a[k]]

\* squares.every(Boolean): holes and non-index properties are not visited.
EveryBoolean(a) == \A k \in DOMAIN a : k >= 0 => Truthy(a[k])

\* Mutant of lines: the diagonals are scanned before the rows and columns.
linesDiagonalsFirst == << <<0, 4, 8>>, <<2, 4, 6>>,
                          <<0, 1, 2>>, <<3, 4, 5>>, <<6, 7, 8>>,
                          <<0, 3, 6>>, <<1, 4, 7>>, <<2, 5, 8>> >>

\* The table of calculateWinner, in its scan order.
lines == << <<0, 1, 2>>, <<3, 4, 5>>, <<6, 7, 8>>,
            <<0, 3, 6>>, <<1, 4, 7>>, <<2, 5, 8>>,
            <<0, 4, 8>>, <<2, 4, 6>> >>

\* The loop of calculateWinner from line number k on.
RECURSIVE ScanLines(_, _)
ScanLines(sq, k) ==
    IF k > Len(lines) THEN <<Null, NoLine>>
    ELSE LET line == lines[k]
             a == line[1]
             b == line[2]
             c == line[3]
         IN  IF /\ Truthy(Get(sq, a))
                /\ Get(sq, a) = Get(sq, b)
                /\ Get(sq, a) = Get(sq, c)
             THEN <<Get(sq, a), line>>
             ELSE ScanLines(sq, k + 1)

calculateWinner(sq) == ScanLines(sq, 1)

\* State after the first render: the mount effect is still to run.
Init ==
    /\ squares = EmptyBoard
    /\ xIsNext = TRUE
    /\ history = <<>>
    /\ isGameOver = FALSE
    /\ winner = Null
    /\ winningLine = NoLine
    /\ pc = "effect"
    /\ lastCall = "none"

\* Mutant of useEffect: the branch of a win does not set isGameOver.
useEffectWinNotOver ==
    /\ pc = "effect"
    /\ LET r == calculateWinner(squares)
           maybeWinner == r[1]
           line == r[2]
       IN  IF Truthy(maybeWinner)
           THEN /\ winner' = maybeWinner
                /\ isGameOver' = isGameOver
                /\ winningLine' = line
           ELSE IF EveryBoolean(squares)
           THEN /\ winner' = Null
                /\ winningLine' = NoLine
                /\ isGameOver' = TRUE
           ELSE /\ winner' = Null
                /\ winningLine' = NoLine
                /\ isGameOver' = FALSE
    /\ pc' = "idle"
    /\ UNCHANGED <<squares, xIsNext, history>>

\* The effect that tracks winner and game over; it runs after every render
\* that committed a new squares array, before the next input is handled.
useEffect ==
    /\ pc = "effect"
    /\ LET r == calculateWinner(squares)
           maybeWinner == r[1]
           line == r[2]
       IN  IF Truthy(maybeWinner)
           THEN /\ winner' = maybeWinner
                /\ isGameOver' = TRUE
                /\ winningLine' = line
           ELSE IF EveryBoolean(squares)
           THEN /\ winner' = Null
                /\ winningLine' = NoLine
                /\ isGameOver' = TRUE
           ELSE /\ winner' = Null
                /\ winningLine' = NoLine
                /\ isGameOver' = FALSE
    /\ pc' = "idle"
    /\ UNCHANGED <<squares, xIsNext, history>>

\* Mutant of handleClick: the guard does not test isGameOver.
handleClickNoGameOverCheck(i) ==
    /\ pc = "idle"
    /\ IF Truthy(Get(squares, i))
       THEN UNCHANGED state
       ELSE LET nextSquares == SetAt(Slice(squares), i,
                                     IF xIsNext THEN "X" ELSE "O")
            IN  /\ history' = Append(history, squares)
                /\ squares' = nextSquares
                /\ xIsNext' = ~xIsNext
                /\ pc' = "effect"
                /\ UNCHANGED <<isGameOver, winner, winningLine>>

\* Mutant of handleClick: the guard does not test squares[i].
handleClickNoOccupiedCheck(i) ==
    /\ pc = "idle"
    /\ IF isGameOver
       THEN UNCHANGED state
       ELSE LET nextSquares == SetAt(Slice(squares), i,
                                     IF xIsNext THEN "X" ELSE "O")
            IN  /\ history' = Append(history, squares)
                /\ squares' = nextSquares
                /\ xIsNext' = ~xIsNext
                /\ pc' = "effect"
                /\ UNCHANGED <<isGameOver, winner, winningLine>>

\* Mutant of handleClick: the turn is not flipped.
handleClickKeepsTurn(i) ==
    /\ pc = "idle"
    /\ IF Truthy(Get(squares, i)) \/ isGameOver
       THEN UNCHANGED state
       ELSE LET nextSquares == SetAt(Slice(squares), i,
                                     IF xIsNext THEN "X" ELSE "O")
            IN  /\ history' = Append(history, squares)
                /\ squares' = nextSquares
                /\ pc' = "effect"
                /\ UNCHANGED <<xIsNext, isGameOver, winner, winningLine>>

\* Mutant of handleClick: the board after the move is appended to history.
handleClickPostMoveHistory(i) ==
    /\ pc = "idle"
    /\ IF Truthy(Get(squares, i)) \/ isGameOver
       THEN UNCHANGED state
       ELSE LET nextSquares == SetAt(Slice(squares), i,
                                     IF xIsNext THEN "X" ELSE "O")
            IN  /\ history' = Append(history, nextSquares)
                /\ squares' = nextSquares
                /\ xIsNext' = ~xIsNext
                /\ pc' = "effect"
                /\ UNCHANGED <<isGameOver, winner, winningLine>>

\* Mutant of handleClick: the move is made on the board of the render before
\* the last one (a handler that did not see the previous move).
handleClickStaleBoard(i) ==
    /\ pc = "idle"
    /\ IF Truthy(Get(squares, i)) \/ isGameOver
       THEN UNCHANGED state
       ELSE LET stale == IF Len(history) > 0 THEN history[Len(history)]
                         ELSE squares
                nextSquares == SetAt(Slice(stale), i,
                                     IF xIsNext THEN "X" ELSE "O")
            IN  /\ history' = Append(history, squares)
                /\ squares' = nextSquares
                /\ xIsNext' = ~xIsNext
                /\ pc' = "effect"
                /\ UNCHANGED <<isGameOver, winner, winningLine>>

\* Mutant of handleClick: setSquares is not called, so the board stays as it
\* is and no effect follows.
handleClickNoSetSquares(i) ==
    /\ pc = "idle"
    /\ IF Truthy(Get(squares, i)) \/ isGameOver
       THEN UNCHANGED state
       ELSE /\ history' = Append(history, squares)
            /\ xIsNext' = ~xIsNext
            /\ UNCHANGED <<squares, pc, isGameOver, winner, winningLine>>

handleClick(i) ==
    /\ pc = "idle"
    /\ IF Truthy(Get(squares, i)) \/ isGameOver
       THEN UNCHANGED state
       ELSE LET nextSquares == SetAt(Slice(squares), i,
                                     IF xIsNext THEN "X" ELSE "O")
            IN  /\ history' = Append(history, squares)
                /\ squares' = nextSquares
                /\ xIsNext' = ~xIsNext
                /\ pc' = "effect"
                /\ UNCHANGED <<isGameOver, winner, winningLine>>

\* Mutant of handleReset: the turn is not set back to X.
handleResetKeepsTurn ==
    /\ pc = "idle"
    /\ squares' = EmptyBoard
    /\ winner' = Null
    /\ winningLine' = NoLine
    /\ isGameOver' = FALSE
    /\ history' = <<>>
    /\ pc' = "effect"
    /\ UNCHANGED xIsNext

\* Mutant of handleReset: winner and winningLine are not cleared.
handleResetKeepsWinner ==
    /\ pc = "idle"
    /\ squares' = EmptyBoard
    /\ xIsNext' = TRUE
    /\ isGameOver' = FALSE
    /\ history' = <<>>
    /\ pc' = "effect"
    /\ UNCHANGED <<winner, winningLine>>

\* Mutant of handleReset: isGameOver is not cleared.
handleResetKeepsGameOver ==
    /\ pc = "idle"
    /\ squares' = EmptyBoard
    /\ xIsNext' = TRUE
    /\ winner' = Null
    /\ winningLine' = NoLine
    /\ history' = <<>>
    /\ pc' = "effect"
    /\ UNCHANGED isGameOver

handleReset ==
    /\ pc = "idle"
    /\ squares' = EmptyBoard
    /\ xIsNext' = TRUE
    /\ winner' = Null
    /\ winningLine' = NoLine
    /\ isGameOver' = FALSE
    /\ history' = <<>>
    /\ pc' = "effect"

\* Mutant of handleNewGame: the guard is isGameOver, as for the button.
handleNewGameWhenOver ==
    /\ pc = "idle"
    /\ IF isGameOver
       THEN handleReset
       ELSE UNCHANGED state

handleNewGame ==
    /\ pc = "idle"
    /\ IF Len(history) > 0
       THEN handleReset
       ELSE UNCHANGED state

\* disabled={!!squares[i] || isGameOver} of a cell button
CellDisabled(i) == Truthy(Get(squares, i)) \/ isGameOver

\* disabled={!isGameOver && squares.every(s => !s)} of the Reset button
ResetDisabled ==
    ~isGameOver /\ \A k \in DOMAIN squares : k >= 0 => ~Truthy(squares[k])

\* Mutant of NewGameDisabled: disabled while history is empty.
NewGameDisabledOnEmptyHistory == Len(history) = 0

\* disabled={!isGameOver} of the New Game button
NewGameDisabled == ~isGameOver

NewGameEnabled == ~NewGameDisabled

\* The handlers are the operations of the game: each is taken with any
\* argument of Cells in any idle state, whether or not its control is
\* enabled, and runs to completion; the effect runs before the next input.
Next ==
    \/ useEffect /\ lastCall' = "useEffect"
    \/ \E i \in Cells : handleClick(i) /\ lastCall' = "handleClick"
    \/ handleReset /\ lastCall' = "handleReset"
    \/ handleNewGame /\ lastCall' = "handleNewGame"

Spec == Init /\ [][Next]_vars

(***************************************************************************)
(* One game played to its end: the players keep clicking enabled cells and *)
(* nobody resets. The effect always runs after a commit, and a click on an *)
(* enabled cell keeps coming as long as there is one.                      *)
(***************************************************************************)
AcceptedClick ==
    \E i \in Cells :
        ~CellDisabled(i) /\ handleClick(i) /\ lastCall' = "handleClick"

RunEffect == useEffect /\ lastCall' = "useEffect"

NextPlay ==
    \/ RunEffect
    \/ AcceptedClick

SpecPlay ==
    Init /\ [][NextPlay]_vars /\ WF_vars(RunEffect) /\ WF_vars(AcceptedClick)

(***************************************************************************)
(* handleClick with any integer argument: the indices outside 0..8 up to   *)
(* OutOfRange cells beyond either end of the board. An index above 8 adds  *)
(* an element, so the number of accepted moves has no bound of its own:    *)
(* MaxAnyMoves caps it.                                                    *)
(***************************************************************************)
OutOfRange == 2
MaxAnyMoves == 5

AnyIndex == (0 - OutOfRange) .. (8 + OutOfRange)

NextAnyIndex ==
    \/ useEffect /\ lastCall' = "useEffect"
    \/ /\ Len(history) < MaxAnyMoves
       /\ \E i \in AnyIndex : handleClick(i) /\ lastCall' = "handleClick"
    \/ handleReset /\ lastCall' = "handleReset"
    \/ handleNewGame /\ lastCall' = "handleNewGame"

SpecAnyIndex == Init /\ [][NextAnyIndex]_vars

(***************************************************************************)
(* The outcome evaluation alone, on every board of 9 cells: the effect     *)
(* runs once on a board drawn from {null, "X", "O"}^9.                     *)
(***************************************************************************)
AllBoards == [Cells -> {Null, "X", "O"}]

InitEval ==
    /\ squares \in AllBoards
    /\ xIsNext = TRUE
    /\ history = <<>>
    /\ isGameOver = FALSE
    /\ winner = Null
    /\ winningLine = NoLine
    /\ pc = "effect"
    /\ lastCall = "none"

NextEval == useEffect /\ lastCall' = "useEffect"

SpecEval == InitEval /\ [][NextEval]_vars

(***************************************************************************)
(* Vocabulary of the properties.                                           *)
(***************************************************************************)

\* Number of marks on the 9 cells of a board.
MarkCount(sq) == Cardinality({k \in Cells : Truthy(Get(sq, k))})

\* The 8 lines in the order the outcome evaluation is specified to scan
\* them: rows top to bottom, columns left to right, the two diagonals.
SpecifiedLines == << <<0, 1, 2>>, <<3, 4, 5>>, <<6, 7, 8>>,
                     <<0, 3, 6>>, <<1, 4, 7>>, <<2, 5, 8>>,
                     <<0, 4, 8>>, <<2, 4, 6>> >>

\* The three cells of line l are equal and non-empty.
LineFull(sq, l) ==
    /\ Get(sq, l[1]) \in {"X", "O"}
    /\ Get(sq, l[1]) = Get(sq, l[2])
    /\ Get(sq, l[1]) = Get(sq, l[3])

FullLines(sq) == {k \in 1 .. 8 : LineFull(sq, SpecifiedLines[k])}

\* The outcome a board evaluates to: won by the mark of the first full
\* line, draw when no line is full and no cell is empty, else in progress.
OutcomeOf(sq) ==
    IF FullLines(sq) # {}
    THEN LET k == CHOOSE n \in FullLines(sq) : \A m \in FullLines(sq) : n <= m
         IN  [kind |-> "won", mark |-> Get(sq, SpecifiedLines[k][1]),
              line |-> SpecifiedLines[k]]
    ELSE IF \A c \in Cells : Get(sq, c) \in {"X", "O"}
    THEN [kind |-> "draw", mark |-> Null, line |-> NoLine]
    ELSE [kind |-> "in-progress", mark |-> Null, line |-> NoLine]

\* The stored isGameOver, winner and winningLine say outcome o.
StoredIs(o) ==
    /\ isGameOver = (o.kind # "in-progress")
    /\ winner = o.mark
    /\ winningLine = o.line

\* The values of the six pieces of state right after construction.
InitialValues ==
    /\ squares = EmptyBoard
    /\ xIsNext = TRUE
    /\ history = <<>>
    /\ isGameOver = FALSE
    /\ winner = Null
    /\ winningLine = NoLine

(***************************************************************************)
(* C1: whenever the board evaluates to won or draw, handleClick(i) for     *)
(* every i in 0..8 leaves the board, the turn indicator and the history    *)
(* unchanged: a step from a won or draw board that changes any of them is  *)
(* no handleClick(i), it is a handleReset or a handleNewGame.              *)
(***************************************************************************)
C1_GameOverIsTerminal ==
    [][(/\ ~UNCHANGED <<squares, xIsNext, history>>
        /\ OutcomeOf(squares).kind # "in-progress") =>
            /\ lastCall' \in {"handleReset", "handleNewGame"}
            /\ \A i \in Cells : ~handleClick(i)]_vars

\* A click has been handled, and ignored, on a board won by X.
C1_Witness ==
    /\ pc = "idle"
    /\ lastCall = "handleClick"
    /\ OutcomeOf(squares).kind = "won"
    /\ winner = "X"

(***************************************************************************)
(* C2: handleClick(i) on a cell i in 0..8 that already holds X or O        *)
(* changes neither the board nor the turn indicator nor the history: a    *)
(* step that changes any of them is no handleClick(i) on an occupied cell, *)
(* and a click that changes any of them fills an empty cell and leaves     *)
(* every occupied cell as it was.                                          *)
(***************************************************************************)
C2_OccupiedCellIsNoOp ==
    [][~UNCHANGED <<squares, xIsNext, history>> =>
        /\ \A i \in Cells : Truthy(Get(squares, i)) => ~handleClick(i)
        /\ lastCall' = "handleClick" =>
            /\ \A k \in Cells :
                  Truthy(Get(squares, k)) => Get(squares', k) = Get(squares, k)
            /\ \E k \in Cells : /\ ~Truthy(Get(squares, k))
                                /\ Truthy(Get(squares', k))]_vars

\* A click has been handled, and ignored, while the game is in progress:
\* it was a click on an occupied cell.
C2_Witness ==
    /\ pc = "idle"
    /\ lastCall = "handleClick"
    /\ ~isGameOver
    /\ MarkCount(squares) >= 1

(***************************************************************************)
(* C3: handleClick(i) with i < 0 or i > 8 changes nothing: the board stays *)
(* an array of exactly 9 cells with the same contents, and the turn        *)
(* indicator and the history are unchanged.                                *)
(***************************************************************************)
C3_OutOfRangeIsNoOp ==
    [][\A i \in AnyIndex \ Cells :
          handleClick(i) =>
              /\ Length(squares') = 9
              /\ DOMAIN squares' = Cells
              /\ UNCHANGED <<squares, xIsNext, history>>]_vars

(***************************************************************************)
(* C4: handleReset, from any reachable state, yields the initial values:   *)
(* 9 empty cells, turn X, isGameOver false, winner and winningLine null,   *)
(* history empty; the effect that follows leaves them so, and the board    *)
(* evaluates to in-progress.                                               *)
(***************************************************************************)
C4_ResetYieldsInitial ==
    [][/\ lastCall' = "handleReset" =>
            InitialValues' /\ OutcomeOf(squares').kind = "in-progress"
       /\ lastCall = "handleReset" =>
            InitialValues' /\ StoredIs(OutcomeOf(squares))']_vars

\* handleReset has just run.
C4_Witness == lastCall = "handleReset" /\ pc = "effect"

(***************************************************************************)
(* C5: the turn indicator is X exactly when the number of moves accepted   *)
(* since the last reset (the length of history) is even, and exactly when  *)
(* the board holds an even number of marks.                                *)
(***************************************************************************)
C5_TurnParity ==
    /\ xIsNext <=> (Len(history) % 2 = 0)
    /\ xIsNext <=> (MarkCount(squares) % 2 = 0)

\* Three moves have been accepted: it is O's turn.
C5_Witness == pc = "idle" /\ Len(history) = 3 /\ ~xIsNext

(***************************************************************************)
(* C6: on every board of {null, X, O}^9 calculateWinner returns the mark   *)
(* and the triple of the first full line in the order rows, columns,       *)
(* diagonals; the effect stores won with that mark and line, draw when no  *)
(* line is full and all 9 cells are filled, in-progress otherwise.         *)
(***************************************************************************)
C6_EvaluateOutcome ==
    /\ squares \in AllBoards
    /\ LET o == OutcomeOf(squares)
       IN  /\ calculateWinner(squares) = <<o.mark, o.line>>
           /\ pc = "idle" => StoredIs(o)

\* A board with a full row of X above a full row of O has been evaluated:
\* the first line in scan order, the row of X, is the winning line.
C6_Witness ==
    /\ pc = "idle"
    /\ \A k \in {0, 1, 2} : squares[k] = "X"
    /\ \A k \in {3, 4, 5} : squares[k] = "O"
    /\ winner = "X"
    /\ winningLine = <<0, 1, 2>>

(***************************************************************************)
(* C7: in every state in which an input can be handled, the stored         *)
(* isGameOver, winner and winningLine equal the outcome the current board  *)
(* evaluates to.                                                           *)
(***************************************************************************)
C7_StoredMatchesBoard == pc = "idle" => StoredIs(OutcomeOf(squares))

\* An input can be handled on a board won by O.
C7_Witness == pc = "idle" /\ isGameOver /\ winner = "O"

(***************************************************************************)
(* C8: an accepted handleClick(i) (cell i in 0..8 empty, game in progress) *)
(* sets cell i to the mark of the turn, leaves the other 8 cells           *)
(* unchanged, appends the pre-move board as the last element of history    *)
(* and flips the turn indicator.                                           *)
(***************************************************************************)
C8_AcceptedMove ==
    [][lastCall' = "handleClick" =>
        \A i \in Cells :
          (/\ ~Truthy(Get(squares, i))
           /\ ~isGameOver
           /\ handleClick(i)) =>
              /\ squares'[i] = IF xIsNext THEN "X" ELSE "O"
              /\ DOMAIN squares' = Cells
              /\ \A k \in Cells \ {i} : squares'[k] = squares[k]
              /\ Len(history') = Len(history) + 1
              /\ history'[Len(history')] = squares
              /\ \A n \in 1 .. Len(history) : history'[n] = history[n]
              /\ xIsNext' = ~xIsNext]_vars

\* A second move has just been accepted.
C8_Witness ==
    /\ lastCall = "handleClick"
    /\ pc = "effect"
    /\ Len(history) = 2
    /\ MarkCount(squares) = 2

(***************************************************************************)
(* C9: handleNewGame does what handleReset does whenever history is        *)
(* non-empty, and changes nothing when history is empty.                   *)
(***************************************************************************)
C9_NewGameIsGuardedReset ==
    [][lastCall' = "handleNewGame" =>
          IF Len(history) > 0
          THEN handleReset /\ InitialValues' /\ pc' = "effect"
          ELSE UNCHANGED state]_vars

\* handleNewGame has just reset a game.
C9_Witness == lastCall = "handleNewGame" /\ pc = "effect"

C11_NoMoveLost ==
    Len(history) >= 2 =>
        LET n == Len(history)
            b0 == history[n - 1]
            b1 == history[n]
            gained == {k \in Cells : ~Truthy(b0[k]) /\ Truthy(squares[k])}
        IN  /\ Cardinality(gained) = 2
            /\ {squares[k] : k \in gained} = {"X", "O"}
            /\ \A k \in Cells : Truthy(b0[k]) => b1[k] = b0[k]
            /\ \A k \in Cells : Truthy(b1[k]) => squares[k] = b1[k]
            /\ MarkCount(b1) = MarkCount(b0) + 1
            /\ MarkCount(squares) = MarkCount(b0) + 2
            /\ OutcomeOf(b1).kind = "in-progress"
            /\ xIsNext <=> (MarkCount(b0) % 2 = 0)

\* Two clicks in a row have been accepted on a board that held two marks.
C11_Witness ==
    /\ lastCall = "handleClick"
    /\ pc = "effect"
    /\ Len(history) = 4
    /\ MarkCount(squares) = 4

(***************************************************************************)
(* Scenarios: a sequence of clicks from the initial state.                 *)
(***************************************************************************)

\* The board that holds the first k clicks of moves, marked X, O, X, ... in
\* the order of the clicks.
PlayedBoard(moves, k) ==
    [c \in Cells |->
        IF \E j \in 1 .. k : moves[j] = c
        THEN IF (CHOOSE j \in 1 .. k : moves[j] = c) % 2 = 1 THEN "X" ELSE "O"
        ELSE Null]

\* The state in which exactly the first k clicks of moves have been
\* accepted since the last reset, in that order.
AfterMoves(moves, k) ==
    /\ Len(history) = k
    /\ \A j \in 1 .. k : squares[moves[j]] = IF j % 2 = 1 THEN "X" ELSE "O"
    /\ squares = PlayedBoard(moves, k)
    /\ \A j \in 1 .. k : history[j] = PlayedBoard(moves, j - 1)
    /\ xIsNext = (k % 2 = 0)

InProgress == [kind |-> "in-progress", mark |-> Null, line |-> NoLine]

Moves12 == <<0, 4, 1, 3, 2>>

(***************************************************************************)
(* C12: from the initial state the clicks 0,4,1,3,2 are all accepted and   *)
(* place X,O,X,O,X; the stored outcome is in-progress after each of the    *)
(* first four and won by X with winning line [0,1,2] after the fifth.      *)
(***************************************************************************)
C12_ScenarioWin ==
    /\ [][lastCall' = "handleClick" =>
            \A k \in 1 .. Len(Moves12) :
                (AfterMoves(Moves12, k - 1) /\ handleClick(Moves12[k])) =>
                    AfterMoves(Moves12, k)']_vars
    /\ [](pc = "idle" =>
            \A k \in 0 .. Len(Moves12) :
                AfterMoves(Moves12, k) =>
                    StoredIs(IF k = Len(Moves12)
                             THEN [kind |-> "won", mark |-> "X",
                                   line |-> <<0, 1, 2>>]
                             ELSE InProgress))

\* The five clicks have been handled and the effect has run.
C12_Witness ==
    /\ pc = "idle"
    /\ AfterMoves(Moves12, Len(Moves12))
    /\ winner = "X"

Moves13 == <<0, 1, 2, 4, 3, 5, 7, 6, 8>>

(***************************************************************************)
(* C13: from the initial state the clicks 0,1,2,4,3,5,7,6,8 are all        *)
(* accepted with marks alternating from X, no line is ever full, the       *)
(* stored outcome after the ninth is draw (isGameOver true, winner null),  *)
(* and a tenth handleClick on any cell changes nothing.                    *)
(***************************************************************************)
C13_ScenarioDraw ==
    /\ [][lastCall' = "handleClick" =>
            /\ \A k \in 1 .. Len(Moves13) :
                  (AfterMoves(Moves13, k - 1) /\ handleClick(Moves13[k])) =>
                      AfterMoves(Moves13, k)'
            /\ AfterMoves(Moves13, Len(Moves13)) => UNCHANGED state]_vars
    /\ [](\A k \in 0 .. Len(Moves13) :
            AfterMoves(Moves13, k) =>
                /\ FullLines(squares) = {}
                /\ pc = "idle" =>
                      StoredIs(IF k = Len(Moves13)
                               THEN [kind |-> "draw", mark |-> Null,
                                     line |-> NoLine]
                               ELSE InProgress))

\* The nine clicks have been accepted, the game is a draw and a tenth click
\* has been handled.
C13_Witness ==
    /\ pc = "idle"
    /\ lastCall = "handleClick"
    /\ AfterMoves(Moves13, Len(Moves13))
    /\ isGameOver
    /\ winner = Null

\* The marks of the full lines of a board.
FullLineMarks(sq) == {Get(sq, SpecifiedLines[k][1]) : k \in FullLines(sq)}

\* Number of cells of a board that hold mark m.
CountOf(sq, m) == Cardinality({k \in Cells : Get(sq, k) = m})

(***************************************************************************)
(* C14: no reachable board has a full line of X and a full line of O at    *)
(* the same time.                                                          *)
(***************************************************************************)
C14_NoTwoWinners == Cardinality(FullLineMarks(squares)) <= 1

\* O has completed a line and a later click has been handled.
C14_Witness ==
    /\ pc = "idle"
    /\ lastCall = "handleClick"
    /\ FullLineMarks(squares) = {"O"}

(***************************************************************************)
(* C15 as stated: in every reachable state whose outcome is won, exactly   *)
(* one of the 8 lines is full.                                             *)
(***************************************************************************)
C15_ExactlyOneLine == winner # Null => Cardinality(FullLines(squares)) = 1

(***************************************************************************)
(* C15 as amended: in every reachable state whose outcome is won, one or   *)
(* two of the 8 lines are full, all with the winner's mark (two when the   *)
(* winning move completes two lines through its cell), and winningLine is  *)
(* the first of them in scan order.                                        *)
(***************************************************************************)
C15_OneOrTwoLines ==
    winner # Null =>
        LET full == FullLines(squares)
        IN  /\ Cardinality(full) \in {1, 2}
            /\ FullLineMarks(squares) = {winner}
            /\ \E k \in full : /\ \A m \in full : k <= m
                               /\ winningLine = SpecifiedLines[k]
            /\ \A k, m \in full :
                  k # m => \E c \in Cells :
                              /\ \E n \in 1 .. 3 : SpecifiedLines[k][n] = c
                              /\ \E n \in 1 .. 3 : SpecifiedLines[m][n] = c

\* A game has been won by a move that completed two lines.
C15_Witness ==
    /\ pc = "idle"
    /\ winner # Null
    /\ Cardinality(FullLines(squares)) = 2

(***************************************************************************)
(* C16: in every reachable state the number of X on the board minus the    *)
(* number of O is 0 or 1.                                                  *)
(***************************************************************************)
C16_CountsDifferByAtMostOne ==
    CountOf(squares, "X") - CountOf(squares, "O") \in {0, 1}

\* Five moves have been accepted: three X and two O.
C16_Witness ==
    /\ pc = "idle"
    /\ CountOf(squares, "X") = 3
    /\ CountOf(squares, "O") = 2

(***************************************************************************)
(* C17: in every reachable state the length of history is the number of    *)
(* marks on the board, the k-th snapshot (k from 0) holds exactly k marks, *)
(* the first one is the empty board, and every snapshot agrees with the    *)
(* current board on each cell the snapshot has filled.                     *)
(***************************************************************************)
C17_HistoryShape ==
    /\ Len(history) = MarkCount(squares)
    /\ \A j \in 1 .. Len(history) :
          /\ DOMAIN history[j] = Cells
          /\ MarkCount(history[j]) = j - 1
          /\ \A c \in Cells :
                Truthy(history[j][c]) => squares[c] = history[j][c]
    /\ Len(history) > 0 => history[1] = EmptyBoard

\* Three moves have been accepted and the effect has run.
C17_Witness ==
    /\ pc = "idle"
    /\ lastCall = "useEffect"
    /\ Len(history) = 3

(***************************************************************************)
(* C18: in every reachable state whose stored outcome is won, the winner   *)
(* is the player of the last move (winner = X iff xIsNext is false), the   *)
(* board holds at least 5 marks, and the three cells of winningLine hold   *)
(* the winner's mark.                                                      *)
(***************************************************************************)
C18_WinnerMovedLast ==
    winner # Null =>
        /\ (winner = "X") <=> ~xIsNext
        /\ MarkCount(squares) >= 5
        /\ Len(winningLine) = 3
        /\ \A n \in 1 .. 3 : Get(squares, winningLine[n]) = winner

\* O has won with the sixth move.
C18_Witness ==
    /\ winner = "O"
    /\ xIsNext
    /\ MarkCount(squares) = 6

(***************************************************************************)
(* C19: in every reachable state isGameOver implies that history is        *)
(* non-empty, so whenever the New Game button is enabled a click on it     *)
(* passes the guard of handleNewGame and resets the game.                  *)
(***************************************************************************)
C19_EnabledNewGameResets ==
    /\ [](isGameOver => Len(history) > 0)
    /\ [][(lastCall' = "handleNewGame" /\ NewGameEnabled) =>
            /\ Len(history) > 0
            /\ InitialValues'
            /\ pc' = "effect"]_vars

\* The game has ended with the fifth move: the button is enabled.
C19_Witness ==
    /\ pc = "idle"
    /\ lastCall = "useEffect"
    /\ NewGameEnabled
    /\ Len(history) = 5

(***************************************************************************)
(* C20: a game terminates: at most 9 moves are accepted after a reset, and *)
(* when the players keep clicking empty cells and nobody resets, the       *)
(* outcome eventually becomes won or draw.                                 *)
(***************************************************************************)
C20_GameTerminates ==
    /\ [](Len(history) <= 9)
    /\ <>(/\ pc = "idle"
          /\ isGameOver
          /\ OutcomeOf(squares).kind \in {"won", "draw"})

\* A game has been played to a draw with the ninth move.
C20_Witness ==
    /\ pc = "idle"
    /\ isGameOver
    /\ winner = Null
    /\ Len(history) = 9

====
